---- MODULE Spec2Model ----
(***************************************************************************)
(* Model of src/FSAL/FSAL_VFS/fsal_lookup.c: VFSFSAL_lookup (Resolve),     *)
(* VFSFSAL_lookupPath (ResolvePath) and VFSFSAL_lookupJunction             *)
(* (ResolveJunction), run by caller threads against a small namespace      *)
(* that a concurrent mutator may change, behind the FS-call token gate.    *)
(***************************************************************************)
EXTENDS Integers, FiniteSets, Sequences, TLC

(* ------------------------------ bounds -------------------------------- *)
\* number of caller threads
NThreads == 2
\* capacity K of the admission gate (tokens of TakeTokenFSCall)
GateCapacity == 1
\* descriptors the process may hold open (open fails with EMFILE beyond it)
MaxOpenRefs == 3
\* components of the longest path given to VFSFSAL_lookupPath
MaxPathLen == 2

Threads == 1..NThreads
\* the thread that issues the calls of the sequential specification
Caller == CHOOSE t \in Threads : \A u \in Threads : t <= u

(* --------------------------- the namespace ---------------------------- *)
Root == "root"
Sub == "sub"
RegFile == "file"
SymLnk == "lnk"
XattrObj == "xattr"
Junc == "junction"
Sock == "sock"
Objects == {Root, Sub, RegFile, SymLnk, XattrObj, Junc, Sock}
Dirs == {Root, Sub}
\* an object handle is the persistent identity of an object
NoHandle == "NULL"
Garbage == "unset"
Names == {"a", "b"}
NoName == "NULL"
NoFd == "nofd"
Contexts == {"uid0", "uid1"}
NoCtx == "NULL"
\* a missing p_path; no path of Paths has the component NoName
NoPath == [abs |-> FALSE, comps |-> <<NoName>>]
\* p_path: whether path[0] is '/', and the components after it
Paths ==
    {[abs |-> ab, comps |-> c] :
        ab \in BOOLEAN,
        c \in UNION {[1..n -> Names] : n \in 0..MaxPathLen}}

\* st_mode's file type of each object
st_type(o) ==
    CASE o \in Dirs -> "S_IFDIR"
      [] o = RegFile -> "S_IFREG"
      [] o = SymLnk -> "S_IFLNK"
      [] o = XattrObj -> "XATTR"
      [] o = Junc -> "JUNCTION"
      [] OTHER -> "S_IFSOCK"

\* posix2fsal_type: the ObjectKind derived from the metadata
posix2fsal_type(mode) ==
    CASE mode = "S_IFDIR" -> "FSAL_TYPE_DIR"
      [] mode = "S_IFREG" -> "FSAL_TYPE_FILE"
      [] mode = "S_IFLNK" -> "FSAL_TYPE_LNK"
      [] mode = "XATTR" -> "FSAL_TYPE_XATTR"
      [] mode = "JUNCTION" -> "FSAL_TYPE_JUNCTION"
      [] OTHER -> "FSAL_TYPE_OTHER"

\* posix2fsal_error (ErrorMapper): native error code -> taxonomy member
posix2fsal_error(e) ==
    CASE e = "0" -> "ERR_FSAL_NO_ERROR"
      [] e = "ENOENT" -> "ERR_FSAL_NOENT"
      [] e = "ESTALE" -> "ERR_FSAL_STALE"
      [] e = "EACCES" -> "ERR_FSAL_ACCESS"
      [] e = "ENOTDIR" -> "ERR_FSAL_NOTDIR"
      [] OTHER -> "ERR_FSAL_IO"

FSAL_IS_ERROR(status) == status # "ERR_FSAL_NO_ERROR"

\* values a read of an int that was never assigned can produce
UninitInt == {"0", "ENOENT", "ESTALE", "EACCES", "EIO"}

\* attribute mask bits
AskedMask == {"FSAL_ATTR_TYPE", "FSAL_ATTR_MODE"}
RdattrErrMask == {"FSAL_ATTR_RDATTR_ERR"}
NoAttrs == {"NULL"}

VARIABLES
    live,       \* live[o]: the object still exists
    xok,        \* xok[d]: the directory's mode grants traversal to others
    dirent,     \* dirent[d][n]: the object under name n in directory d, or NoHandle
    tokens,     \* free tokens of the FS-call gate
    nOpenRefs,  \* descriptors the process holds open
    pc,         \* pc[t]: where thread t stands
    arg,        \* arg[t]: the arguments of t's current call
    loc,        \* loc[t]: the locals of t's current call
    out,        \* out[t]: the caller's output handle and attribute list
    ret,        \* ret[t]: the status major the call returned
    cnt,        \* cnt[t]: collaborator invocations in t's current call
    held        \* held[t]: gate tokens t holds

vars == <<live, xok, dirent, tokens, nOpenRefs, pc, arg, loc, out, ret, cnt, held>>
store == <<live, xok, dirent>>

InitDirent ==
    [d \in Dirs |->
        IF d = Root THEN [n \in Names |-> IF n = "a" THEN Sub ELSE RegFile]
        ELSE [n \in Names |-> IF n = "a" THEN RegFile ELSE NoHandle]]

NoArg == [op |-> "none", parent |-> NoHandle, name |-> NoName, hasOut |-> FALSE,
          ctx |-> NoCtx, attrs |-> FALSE, path |-> NoPath]
NoLoc == [parentfd |-> NoFd, rc |-> 0, errsrv |-> "0", status |-> "ERR_FSAL_NO_ERROR",
          st_mode |-> "unset", st_xok |-> FALSE, statObj |-> NoHandle,
          lookupObj |-> NoHandle, rootAtStat |-> NoHandle, rootAtLookup |-> NoHandle,
          lookupLive |-> FALSE]
NoOut == [handle |-> Garbage, handle_bytes |-> "unset", mask |-> NoAttrs]
NoCnt == [open |-> 0, fstat |-> 0, access |-> 0, lookup |-> 0, getattrs |-> 0,
          take |-> 0, close |-> 0, path2handle |-> 0]

Init ==
    /\ live = [o \in Objects |-> TRUE]
    /\ xok = [d \in Dirs |-> d = Root]
    /\ dirent = InitDirent
    /\ tokens = GateCapacity
    /\ nOpenRefs = 0
    /\ pc = [t \in Threads |-> "idle"]
    /\ arg = [t \in Threads |-> NoArg]
    /\ loc = [t \in Threads |-> NoLoc]
    /\ out = [t \in Threads |-> NoOut]
    /\ ret = [t \in Threads |-> "none"]
    /\ cnt = [t \in Threads |-> NoCnt]
    /\ held = [t \in Threads |-> 0]


(* ----------------- the collaborators Resolve consumes ------------------ *)
\* fsal_internal_handle2fd (HandleStore.openByHandle): the status and the
\* object the new descriptor refers to
fsal_internal_handle2fd(h) ==
    IF ~live[h]
    THEN [status |-> posix2fsal_error("ESTALE"), fd |-> NoFd]
    ELSE IF nOpenRefs >= MaxOpenRefs
    THEN [status |-> posix2fsal_error("EMFILE"), fd |-> NoFd]
    ELSE [status |-> "ERR_FSAL_NO_ERROR", fd |-> h]

\* fstat(2) on an open descriptor: the outcomes the store can produce
fstat(fd) ==
    IF ~live[fd]
    THEN {[rc |-> -1, errno |-> "ENOENT", st_mode |-> "unset", st_xok |-> FALSE]}
    ELSE {[rc |-> 0, errno |-> "0", st_mode |-> st_type(fd),
           st_xok |-> IF fd \in Dirs THEN xok[fd] ELSE TRUE],
          [rc |-> -1, errno |-> "EIO", st_mode |-> "unset", st_xok |-> FALSE]}

\* vfs_name_by_handle_at (HandleStore.lookupNameAt) in the object dir
vfs_name_by_handle_at(dir, name) ==
    IF dir \notin Dirs THEN [rc |-> -1, errno |-> "ENOTDIR", handle |-> NoHandle]
    ELSE IF ~live[dir] \/ dirent[dir][name] = NoHandle
    THEN [rc |-> -1, errno |-> "ENOENT", handle |-> NoHandle]
    ELSE [rc |-> 0, errno |-> "0", handle |-> dirent[dir][name]]

\* fsal_internal_testAccess (AccessChecker) for FSAL_X_OK on the fetched metadata
fsal_internal_testAccess(ctx, st_x) ==
    IF ctx = "uid0" \/ st_x THEN "ERR_FSAL_NO_ERROR" ELSE "ERR_FSAL_ACCESS"

\* TakeTokenFSCall / ReleaseTokenFSCall: the counting admission gate
TakeTokenFSCall(t) ==
    /\ tokens > 0
    /\ tokens' = tokens - 1
    /\ held' = [held EXCEPT ![t] = @ + 1]

ReleaseTokenFSCall(t) ==
    /\ tokens' = tokens + 1
    /\ held' = [held EXCEPT ![t] = @ - 1]

(* ------------------------- VFSFSAL_lookup ------------------------------ *)
\* Return(major, minor, idx) / ReturnStatus(status, idx)
Return(t, major) ==
    /\ pc' = [pc EXCEPT ![t] = "done"]
    /\ ret' = [ret EXCEPT ![t] = major]

Goto(t, label) ==
    /\ pc' = [pc EXCEPT ![t] = label]
    /\ UNCHANGED ret

\* mutant: the name-without-handle combination is not rejected
SanityFault_HalfChecked(a) ==
    \/ ~a.hasOut \/ a.ctx = NoCtx
    \/ (a.parent # NoHandle /\ a.name = NoName)

\* the sanity checks of lines 88-94
SanityFault(a) ==
    \/ ~a.hasOut \/ a.ctx = NoCtx
    \/ (a.parent # NoHandle /\ a.name = NoName)
    \/ (a.parent = NoHandle /\ a.name # NoName)

\* mutant: the copy runs in the wrong direction and leaves dst as it was
RootHandleCopy_Reversed(dst) == dst

\* memcpy of export_context->root_handle
RootHandleCopy(dst) == Root

\* entry of a call: the arguments, then lines 88-116 up to the root case's getattrs
VFSFSAL_lookup_Enter(t, parent, name, hasOut, ctx, attrs) ==
    /\ pc[t] = "idle"
    /\ LET a == [op |-> "lookup", parent |-> parent, name |-> name,
                 hasOut |-> hasOut, ctx |-> ctx, attrs |-> attrs, path |-> NoPath]
           o0 == [NoOut EXCEPT !.mask = IF attrs THEN AskedMask ELSE NoAttrs]
       IN /\ arg' = [arg EXCEPT ![t] = a]
          /\ loc' = [loc EXCEPT ![t] = NoLoc]
          /\ cnt' = [cnt EXCEPT ![t] = NoCnt]
          /\ IF SanityFault(a)
             THEN /\ out' = [out EXCEPT ![t] = o0]
                  /\ Return(t, "ERR_FSAL_FAULT")
             ELSE IF parent = NoHandle
             THEN /\ out' = [out EXCEPT ![t] = [o0 EXCEPT !.handle = RootHandleCopy(@)]]
                  /\ IF attrs THEN /\ pc' = [pc EXCEPT ![t] = "root_getattrs"]
                                   /\ ret' = [ret EXCEPT ![t] = "none"]
                     ELSE Return(t, "ERR_FSAL_NO_ERROR")
             ELSE /\ out' = [out EXCEPT ![t] = o0]
                  /\ pc' = [pc EXCEPT ![t] = "take_handle2fd"]
                  /\ ret' = [ret EXCEPT ![t] = "none"]
    /\ UNCHANGED <<store, tokens, nOpenRefs, held>>

\* the statuses VFSFSAL_getattrs (the attribute collaborator) can return
GetattrsStatuses == {"ERR_FSAL_NO_ERROR", "ERR_FSAL_IO", "ERR_FSAL_STALE"}

\* mutant: the error bit is set without clearing the asked mask
GetattrsInto_NoClear(t, status) ==
    /\ cnt' = [cnt EXCEPT ![t].getattrs = @ + 1]
    /\ loc' = [loc EXCEPT ![t].status = status]
    /\ out' = [out EXCEPT ![t].mask =
                  IF FSAL_IS_ERROR(status) THEN @ \cup RdattrErrMask ELSE @]

\* status = VFSFSAL_getattrs(...) on the resolved handle, then the
\* degrade-not-fail policy: FSAL_CLEAR_MASK and FSAL_SET_MASK(RDATTR_ERR)
GetattrsInto(t, status) ==
    /\ cnt' = [cnt EXCEPT ![t].getattrs = @ + 1]
    /\ loc' = [loc EXCEPT ![t].status = status]
    /\ out' = [out EXCEPT ![t].mask =
                  IF FSAL_IS_ERROR(status) THEN RdattrErrMask ELSE @]

\* lines 104-115: attributes of the root handle
VFSFSAL_lookup_RootGetattrs(t) ==
    /\ pc[t] = "root_getattrs"
    /\ \E status \in GetattrsStatuses : GetattrsInto(t, status)
    /\ Return(t, "ERR_FSAL_NO_ERROR")
    /\ UNCHANGED <<store, tokens, nOpenRefs, held, arg>>

\* line 119
VFSFSAL_lookup_TakeOpen(t) ==
    /\ pc[t] = "take_handle2fd"
    /\ TakeTokenFSCall(t)
    /\ cnt' = [cnt EXCEPT ![t].take = @ + 1]
    /\ Goto(t, "handle2fd")
    /\ UNCHANGED <<store, nOpenRefs, arg, loc, out>>

\* mutant: the handle length of line 177 is preset before the parent is opened
VFSFSAL_lookup_Open_PresetsHandleLen(t) ==
    /\ pc[t] = "handle2fd"
    /\ LET r == fsal_internal_handle2fd(arg[t].parent)
       IN /\ loc' = [loc EXCEPT ![t].status = r.status, ![t].parentfd = r.fd]
          /\ nOpenRefs' = IF FSAL_IS_ERROR(r.status) THEN nOpenRefs ELSE nOpenRefs + 1
    /\ cnt' = [cnt EXCEPT ![t].open = @ + 1]
    /\ out' = [out EXCEPT ![t].handle_bytes = "VFS_HANDLE_LEN"]
    /\ Goto(t, "rel_handle2fd")
    /\ UNCHANGED <<store, tokens, held, arg>>

\* lines 120-121
VFSFSAL_lookup_Open(t) ==
    /\ pc[t] = "handle2fd"
    /\ LET r == fsal_internal_handle2fd(arg[t].parent)
       IN /\ loc' = [loc EXCEPT ![t].status = r.status, ![t].parentfd = r.fd]
          /\ nOpenRefs' = IF FSAL_IS_ERROR(r.status) THEN nOpenRefs ELSE nOpenRefs + 1
    /\ cnt' = [cnt EXCEPT ![t].open = @ + 1]
    /\ Goto(t, "rel_handle2fd")
    /\ UNCHANGED <<store, tokens, held, arg, out>>

\* lines 122-124
VFSFSAL_lookup_ReleaseOpen(t) ==
    /\ pc[t] = "rel_handle2fd"
    /\ ReleaseTokenFSCall(t)
    /\ IF FSAL_IS_ERROR(loc[t].status)
       THEN Return(t, loc[t].status)
       ELSE Goto(t, "take_fstat")
    /\ UNCHANGED <<store, nOpenRefs, arg, loc, out, cnt>>

\* mutant: the metadata fetch is started without taking a token
VFSFSAL_lookup_TakeFstat_Ungated(t) ==
    /\ pc[t] = "take_fstat"
    /\ cnt' = [cnt EXCEPT ![t].take = @ + 1]
    /\ Goto(t, "fstat")
    /\ UNCHANGED <<store, tokens, held, nOpenRefs, arg, loc, out>>

\* line 127
VFSFSAL_lookup_TakeFstat(t) ==
    /\ pc[t] = "take_fstat"
    /\ TakeTokenFSCall(t)
    /\ cnt' = [cnt EXCEPT ![t].take = @ + 1]
    /\ Goto(t, "fstat")
    /\ UNCHANGED <<store, nOpenRefs, arg, loc, out>>

\* lines 128-129: rc = fstat(parentfd, &buffstat); errsrv = errno
VFSFSAL_lookup_Fstat(t) ==
    /\ pc[t] = "fstat"
    /\ \E r \in fstat(loc[t].parentfd) :
          loc' = [loc EXCEPT ![t].rc = r.rc, ![t].errsrv = r.errno,
                             ![t].st_mode = r.st_mode, ![t].st_xok = r.st_xok,
                             ![t].statObj = loc[t].parentfd,
                             ![t].rootAtStat = dirent[Root]["a"]]
    /\ cnt' = [cnt EXCEPT ![t].fstat = @ + 1]
    /\ Goto(t, "rel_fstat")
    /\ UNCHANGED <<store, tokens, nOpenRefs, held, arg, out>>

\* line 130
VFSFSAL_lookup_ReleaseFstat(t) ==
    /\ pc[t] = "rel_fstat"
    /\ ReleaseTokenFSCall(t)
    /\ Goto(t, "classify")
    /\ UNCHANGED <<store, nOpenRefs, arg, loc, out, cnt>>

\* close(parentfd)
close(t) ==
    /\ nOpenRefs' = nOpenRefs - 1
    /\ loc' = [loc EXCEPT ![t].parentfd = NoFd]
    /\ cnt' = [cnt EXCEPT ![t].close = @ + 1]

\* lines 136-139: the status of a failed metadata fetch, from the local errsv
FstatFailStatus(errsv) ==
    IF errsv = "ENOENT" THEN "ERR_FSAL_STALE" ELSE posix2fsal_error(errsv)

\* mutant: a symbolic link is let through like a directory
ClassifyStatus_LinkAsDir(type) ==
    CASE type \in {"FSAL_TYPE_DIR", "FSAL_TYPE_LNK"} -> "ok"
      [] type = "FSAL_TYPE_JUNCTION" -> "ERR_FSAL_XDEV"
      [] type \in {"FSAL_TYPE_FILE", "FSAL_TYPE_XATTR"} -> "ERR_FSAL_NOTDIR"
      [] OTHER -> "ERR_FSAL_SERVERFAULT"

\* mutant: a junction is let through like a directory
ClassifyStatus_JunctionAsDir(type) ==
    CASE type \in {"FSAL_TYPE_DIR", "FSAL_TYPE_JUNCTION"} -> "ok"
      [] type \in {"FSAL_TYPE_FILE", "FSAL_TYPE_LNK", "FSAL_TYPE_XATTR"} -> "ERR_FSAL_NOTDIR"
      [] OTHER -> "ERR_FSAL_SERVERFAULT"

\* lines 143-164: the switch on the parent's kind; "ok" lets the call proceed
ClassifyStatus(type) ==
    CASE type = "FSAL_TYPE_DIR" -> "ok"
      [] type = "FSAL_TYPE_JUNCTION" -> "ERR_FSAL_XDEV"
      [] type \in {"FSAL_TYPE_FILE", "FSAL_TYPE_LNK", "FSAL_TYPE_XATTR"} -> "ERR_FSAL_NOTDIR"
      [] OTHER -> "ERR_FSAL_SERVERFAULT"

\* lines 132-164.  errsv is declared at line 76 and never assigned: the
\* comparison and the mapping at lines 136-139 read an indeterminate value.
VFSFSAL_lookup_Classify(t) ==
    /\ pc[t] = "classify"
    /\ IF loc[t].rc # 0
       THEN /\ close(t)
            /\ \E errsv \in UninitInt : Return(t, FstatFailStatus(errsv))
       ELSE LET s == ClassifyStatus(posix2fsal_type(loc[t].st_mode))
            IN IF s = "ok"
               THEN /\ Goto(t, "testAccess")
                    /\ UNCHANGED <<nOpenRefs, loc, cnt>>
               ELSE /\ close(t)
                    /\ Return(t, s)
    /\ UNCHANGED <<store, tokens, held, arg, out>>

\* mutant: the denial is not acted upon
AfterAccess_IgnoresDenial(status) == "take_lookup"

\* where the call goes after the access check of lines 170-172
AfterAccess(status) == IF FSAL_IS_ERROR(status) THEN "return" ELSE "take_lookup"

\* lines 169-172: the error return does not close parentfd
VFSFSAL_lookup_TestAccess(t) ==
    /\ pc[t] = "testAccess"
    /\ LET status == fsal_internal_testAccess(arg[t].ctx, loc[t].st_xok)
       IN /\ loc' = [loc EXCEPT ![t].status = status]
          /\ IF AfterAccess(status) = "return"
             THEN Return(t, status)
             ELSE Goto(t, AfterAccess(status))
    /\ cnt' = [cnt EXCEPT ![t].access = @ + 1]
    /\ UNCHANGED <<store, tokens, nOpenRefs, held, arg, out>>

\* line 175
VFSFSAL_lookup_TakeLookup(t) ==
    /\ pc[t] = "take_lookup"
    /\ TakeTokenFSCall(t)
    /\ cnt' = [cnt EXCEPT ![t].take = @ + 1]
    /\ Goto(t, "name_by_handle")
    /\ UNCHANGED <<store, nOpenRefs, arg, loc, out>>

\* the name under which an object hangs in the root directory at first
InitialName(o) == IF o = Sub THEN "a" ELSE "b"

\* mutant: the parent is found again by walking its path at lookup time
LookupDir_ByPath(t) ==
    IF arg[t].parent = Root THEN Root ELSE dirent[Root][InitialName(arg[t].parent)]

\* the directory vfs_name_by_handle_at searches: the one parentfd refers to
LookupDir(t) == loc[t].parentfd

\* lines 177-180
VFSFSAL_lookup_NameByHandle(t) ==
    /\ pc[t] = "name_by_handle"
    /\ LET r == vfs_name_by_handle_at(LookupDir(t), arg[t].name)
       IN /\ loc' = [loc EXCEPT ![t].rc = r.rc,
                                ![t].errsrv = IF r.rc # 0 THEN r.errno ELSE @,
                                ![t].lookupObj = LookupDir(t),
                                ![t].rootAtLookup = dirent[Root]["a"],
                                ![t].lookupLive = live[arg[t].parent]]
          /\ out' = [out EXCEPT ![t].handle_bytes = "VFS_HANDLE_LEN",
                                ![t].handle = IF r.rc = 0 THEN r.handle ELSE @]
          /\ Goto(t, IF r.rc # 0 THEN "rel_lookup_err" ELSE "rel_lookup_ok")
    /\ cnt' = [cnt EXCEPT ![t].lookup = @ + 1]
    /\ UNCHANGED <<store, tokens, nOpenRefs, held, arg>>

\* mutant: the name-lookup error path returns without releasing the token
VFSFSAL_lookup_LookupFailed_KeepsToken(t) ==
    /\ pc[t] = "rel_lookup_err"
    /\ close(t)
    /\ Return(t, posix2fsal_error(loc[t].errsrv))
    /\ UNCHANGED <<store, arg, out, tokens, held>>

\* mutant: the failure is mapped as the metadata fetch's failure is meant to be
LookupFailStatus_AsFstat(errsrv) ==
    IF errsrv = "ENOENT" THEN "ERR_FSAL_STALE" ELSE posix2fsal_error(errsrv)

\* line 183: the status of a failed name lookup, from the errno saved at line 180
LookupFailStatus(errsrv) == posix2fsal_error(errsrv)

\* lines 181-183
VFSFSAL_lookup_LookupFailed(t) ==
    /\ pc[t] = "rel_lookup_err"
    /\ ReleaseTokenFSCall(t)
    /\ close(t)
    /\ Return(t, LookupFailStatus(loc[t].errsrv))
    /\ UNCHANGED <<store, arg, out>>

\* lines 186-191 and 202
VFSFSAL_lookup_LookupDone(t) ==
    /\ pc[t] = "rel_lookup_ok"
    /\ ReleaseTokenFSCall(t)
    /\ close(t)
    /\ IF arg[t].attrs THEN Goto(t, "getattrs") ELSE Return(t, "ERR_FSAL_NO_ERROR")
    /\ UNCHANGED <<store, arg, out>>

\* lines 190-202
VFSFSAL_lookup_Getattrs(t) ==
    /\ pc[t] = "getattrs"
    /\ \E status \in GetattrsStatuses : GetattrsInto(t, status)
    /\ Return(t, "ERR_FSAL_NO_ERROR")
    /\ UNCHANGED <<store, tokens, nOpenRefs, held, arg>>

(* ------------------------ VFSFSAL_lookupPath --------------------------- *)
\* what a by-name VFSFSAL_lookup of name in h returns when no storage call
\* of it fails for a reason other than the state of the namespace
ResolveAlone(h, name, ctx) ==
    IF ~live[h]
    THEN [status |-> posix2fsal_error("ESTALE"), handle |-> Garbage]
    ELSE LET kind == ClassifyStatus(posix2fsal_type(st_type(h)))
             access == fsal_internal_testAccess(ctx, IF h \in Dirs THEN xok[h] ELSE TRUE)
             r == vfs_name_by_handle_at(h, name)
         IN IF kind # "ok" THEN [status |-> kind, handle |-> Garbage]
            ELSE IF FSAL_IS_ERROR(access) THEN [status |-> access, handle |-> Garbage]
            ELSE IF r.rc # 0
            THEN [status |-> LookupFailStatus(r.errno), handle |-> Garbage]
            ELSE [status |-> "ERR_FSAL_NO_ERROR", handle |-> r.handle]

\* the left-to-right fold of the by-name resolution over the components,
\* stopping at the first failure
RECURSIVE WalkFrom(_, _, _)
WalkFrom(h, comps, ctx) ==
    IF comps = << >> THEN [status |-> "ERR_FSAL_NO_ERROR", handle |-> h]
    ELSE LET r == ResolveAlone(h, Head(comps), ctx)
         IN IF FSAL_IS_ERROR(r.status) THEN r ELSE WalkFrom(r.handle, Tail(comps), ctx)

\* fsal_internal_Path2Handle: the bulk path-to-handle translation
fsal_internal_Path2Handle(ctx, path) == WalkFrom(Root, path.comps, ctx)

\* mutant: a relative path is not rejected
PathSanity_RelativeAccepted(a) ==
    IF ~a.hasOut \/ a.ctx = NoCtx \/ a.path = NoPath THEN "ERR_FSAL_FAULT"
    ELSE "ok"

\* the sanity checks of lines 240-246
PathSanity(a) ==
    IF ~a.hasOut \/ a.ctx = NoCtx \/ a.path = NoPath THEN "ERR_FSAL_FAULT"
    ELSE IF ~a.path.abs THEN "ERR_FSAL_INVAL"
    ELSE "ok"

\* entry of a call: the arguments, then lines 240-246
VFSFSAL_lookupPath_Enter(t, path, hasOut, ctx, attrs) ==
    /\ pc[t] = "idle"
    /\ LET a == [op |-> "lookupPath", parent |-> NoHandle, name |-> NoName,
                 hasOut |-> hasOut, ctx |-> ctx, attrs |-> attrs, path |-> path]
       IN /\ arg' = [arg EXCEPT ![t] = a]
          /\ IF PathSanity(a) # "ok"
             THEN Return(t, PathSanity(a))
             ELSE /\ pc' = [pc EXCEPT ![t] = "path2handle"]
                  /\ ret' = [ret EXCEPT ![t] = "none"]
    /\ loc' = [loc EXCEPT ![t] = NoLoc]
    /\ cnt' = [cnt EXCEPT ![t] = NoCnt]
    /\ out' = [out EXCEPT ![t] = [NoOut EXCEPT !.mask = IF attrs THEN AskedMask ELSE NoAttrs]]
    /\ UNCHANGED <<store, tokens, nOpenRefs, held>>

\* mutant: every failure of the translation is reported as a missing entry
PathFailStatus_AlwaysNoent(status) == "ERR_FSAL_NOENT"

\* line 252: ReturnStatus(status, ...) hands the translation's status on
PathFailStatus(status) == status

\* lines 250-255 and 265
VFSFSAL_lookupPath_Path2Handle(t) ==
    /\ pc[t] = "path2handle"
    /\ LET r == fsal_internal_Path2Handle(arg[t].ctx, arg[t].path)
       IN /\ loc' = [loc EXCEPT ![t].status = r.status]
          /\ IF FSAL_IS_ERROR(r.status)
             THEN /\ Return(t, PathFailStatus(r.status))
                  /\ UNCHANGED out
             ELSE /\ out' = [out EXCEPT ![t].handle = r.handle]
                  /\ IF arg[t].attrs THEN Goto(t, "path_getattrs")
                     ELSE Return(t, "ERR_FSAL_NO_ERROR")
    /\ cnt' = [cnt EXCEPT ![t].path2handle = @ + 1]
    /\ UNCHANGED <<store, tokens, nOpenRefs, held, arg>>

\* lines 254-265
VFSFSAL_lookupPath_Getattrs(t) ==
    /\ pc[t] = "path_getattrs"
    /\ \E status \in GetattrsStatuses : GetattrsInto(t, status)
    /\ Return(t, "ERR_FSAL_NO_ERROR")
    /\ UNCHANGED <<store, tokens, nOpenRefs, held, arg>>

(* ---------------------- VFSFSAL_lookupJunction ------------------------- *)
\* mutant: the export's root handle is handed out as the fileset root
JunctionTarget_Root(dst) == Root

\* lines 329-333: the code that set the output handle is commented out
JunctionTarget(dst) == dst

\* lines 292-353: the whole call
VFSFSAL_lookupJunction(t, junction, hasOut, ctx, attrs) ==
    /\ pc[t] = "idle"
    /\ arg' = [arg EXCEPT ![t] = [op |-> "lookupJunction", parent |-> junction,
                                  name |-> NoName, hasOut |-> hasOut, ctx |-> ctx,
                                  attrs |-> attrs, path |-> NoPath]]
    /\ loc' = [loc EXCEPT ![t] = NoLoc]
    /\ cnt' = [cnt EXCEPT ![t] = NoCnt]
    /\ out' = [out EXCEPT ![t] = [NoOut EXCEPT
                  !.mask = IF attrs THEN AskedMask ELSE NoAttrs,
                  !.handle = JunctionTarget(@)]]
    /\ Return(t, "ERR_FSAL_NO_ERROR")
    /\ UNCHANGED <<store, tokens, nOpenRefs, held>>

\* the caller has read the result and is ready to call again
CallerCollects(t) ==
    /\ pc[t] = "done"
    /\ pc' = [pc EXCEPT ![t] = "idle"]
    /\ arg' = [arg EXCEPT ![t] = NoArg]
    /\ loc' = [loc EXCEPT ![t] = NoLoc]
    /\ out' = [out EXCEPT ![t] = NoOut]
    /\ ret' = [ret EXCEPT ![t] = "none"]
    /\ cnt' = [cnt EXCEPT ![t] = NoCnt]
    /\ UNCHANGED <<store, tokens, nOpenRefs, held>>

\* the steps of a by-name call in progress, up to the name lookup's return
LookupStep(t) ==
    \/ VFSFSAL_lookup_TakeOpen(t)
    \/ VFSFSAL_lookup_Open(t)
    \/ VFSFSAL_lookup_ReleaseOpen(t)
    \/ VFSFSAL_lookup_TakeFstat(t)
    \/ VFSFSAL_lookup_Fstat(t)
    \/ VFSFSAL_lookup_ReleaseFstat(t)
    \/ VFSFSAL_lookup_Classify(t)
    \/ VFSFSAL_lookup_TestAccess(t)
    \/ VFSFSAL_lookup_TakeLookup(t)
    \/ VFSFSAL_lookup_NameByHandle(t)
    \/ VFSFSAL_lookup_LookupFailed(t)
    \/ VFSFSAL_lookup_LookupDone(t)

\* the steps of a call in progress
Step(t) ==
    \/ LookupStep(t)
    \/ VFSFSAL_lookup_RootGetattrs(t)
    \/ VFSFSAL_lookup_Getattrs(t)

(* ------------------- the concurrent namespace mutator ------------------ *)
\* rename(2): the two entries of the root directory trade places
MutatorRename ==
    /\ dirent' = [dirent EXCEPT ![Root] = [n \in Names |->
                     IF n = "a" THEN dirent[Root]["b"] ELSE dirent[Root]["a"]]]
    /\ UNCHANGED <<live, xok, tokens, nOpenRefs, pc, arg, loc, out, ret, cnt, held>>

\* chmod(2) on a directory
MutatorChmod(d) ==
    /\ xok' = [xok EXCEPT ![d] = ~@]
    /\ UNCHANGED <<live, dirent, tokens, nOpenRefs, pc, arg, loc, out, ret, cnt, held>>

\* rmdir(2)/unlink(2) of the subdirectory: its handle goes stale
MutatorRemove ==
    /\ live[Sub]
    /\ live' = [live EXCEPT ![Sub] = FALSE]
    /\ dirent' = [d \in Dirs |-> [n \in Names |->
                     IF dirent[d][n] = Sub THEN NoHandle ELSE dirent[d][n]]]
    /\ UNCHANGED <<xok, tokens, nOpenRefs, pc, arg, loc, out, ret, cnt, held>>

(* --------------------------- specifications ---------------------------- *)
\* one caller with every argument combination, beside the mutator
Next ==
    \/ \E parent \in Objects \cup {NoHandle}, name \in Names \cup {NoName},
          hasOut \in BOOLEAN, ctx \in Contexts \cup {NoCtx}, attrs \in BOOLEAN :
          VFSFSAL_lookup_Enter(Caller, parent, name, hasOut, ctx, attrs)
    \/ Step(Caller)
    \/ \E path \in Paths \cup {NoPath}, hasOut \in BOOLEAN,
          ctx \in Contexts \cup {NoCtx}, attrs \in BOOLEAN :
          VFSFSAL_lookupPath_Enter(Caller, path, hasOut, ctx, attrs)
    \/ VFSFSAL_lookupPath_Path2Handle(Caller)
    \/ VFSFSAL_lookupPath_Getattrs(Caller)
    \/ \E junction \in Objects \cup {NoHandle}, hasOut \in BOOLEAN,
          ctx \in Contexts \cup {NoCtx}, attrs \in BOOLEAN :
          VFSFSAL_lookupJunction(Caller, junction, hasOut, ctx, attrs)
    \/ CallerCollects(Caller)
    \/ MutatorRename
    \/ \E d \in Dirs : MutatorChmod(d)
    \/ MutatorRemove

Spec == Init /\ [][Next]_vars

\* the by-name calls the concurrent callers issue: a lookup that succeeds
\* and one that finds no entry
ConcCalls ==
    {[parent |-> Root, name |-> "a", ctx |-> "uid1"],
     [parent |-> Sub, name |-> "b", ctx |-> "uid0"]}

\* NThreads callers sharing the gate, the namespace left alone
NextConc ==
    \E t \in Threads :
        \/ \E c \in ConcCalls :
              VFSFSAL_lookup_Enter(t, c.parent, c.name, TRUE, c.ctx, FALSE)
        \/ LookupStep(t)
        \/ CallerCollects(t)

ConcSpec == Init /\ [][NextConc]_vars

\* a thread inside a call is scheduled again and again, and a thread waiting
\* at the gate gets a token that is released again and again
FairSpec == ConcSpec /\ \A t \in Threads : SF_vars(LookupStep(t))

\* the calls of the callers that share the process: those of ConcCalls and
\* a lookup in a directory its caller may not traverse
IndepCalls ==
    ConcCalls \cup {[parent |-> Sub, name |-> "a", ctx |-> "uid1"]}

\* NThreads callers sharing the gate and the process's descriptor table,
\* the namespace left alone
NextIndep ==
    \E t \in Threads :
        \/ \E c \in IndepCalls :
              VFSFSAL_lookup_Enter(t, c.parent, c.name, TRUE, c.ctx, FALSE)
        \/ LookupStep(t)
        \/ CallerCollects(t)

IndepSpec == Init /\ [][NextIndep]_vars

(* ------------------------------ claims --------------------------------- *)
Returned(t) == pc[t] = "done" /\ arg[t].op = "lookup"
\* the call went past the sanity checks with a parent handle and a name
ByName(t) == arg[t].op = "lookup" /\ arg[t].parent # NoHandle /\ cnt[t].take >= 1

\* C1: after any sequence of Resolve calls, when no call is in progress,
\* no transient reference obtained from handle2fd is still open.
C1_NoReferenceLeftOpen ==
    (\A t \in Threads : pc[t] \in {"idle", "done"}) => nOpenRefs = 0

\* C2: when the metadata fetch fails, the returned status is decided by the
\* code fstat itself reported: ENOENT gives ERR_FSAL_STALE, any other code
\* gives posix2fsal_error of that code.
C2_FstatFailureMappedFromItsErrno ==
    \A t \in Threads :
        (Returned(t) /\ cnt[t].fstat = 1 /\ cnt[t].lookup = 0 /\ loc[t].rc # 0)
        => ret[t] = (IF loc[t].errsrv = "ENOENT" THEN "ERR_FSAL_STALE"
                     ELSE posix2fsal_error(loc[t].errsrv))

\* the access check of the current call denied traversal
AccessDenied(t) ==
    /\ cnt[t].access = 1
    /\ arg[t].ctx # "uid0"
    /\ ~loc[t].st_xok

\* C3: if the access check denies traversal of the parent, the call returns
\* ERR_FSAL_ACCESS at once and vfs_name_by_handle_at is never invoked in it.
C3_DenialAbortsBeforeLookup ==
    \A t \in Threads :
        AccessDenied(t) =>
            /\ pc[t] = "done"
            /\ ret[t] = "ERR_FSAL_ACCESS"
            /\ cnt[t].lookup = 0

C3_Witness ==
    \E t \in Threads : AccessDenied(t) /\ Returned(t) /\ arg[t].parent = Sub

\* the call found its parent handle to denote no live object: the open
\* reported ESTALE, or the metadata fetch reported "no such object"
FoundStale(t) ==
    /\ ByName(t)
    /\ cnt[t].lookup = 0
    /\ \/ cnt[t].open = 1 /\ cnt[t].fstat = 0 /\ loc[t].status = posix2fsal_error("ESTALE")
       \/ cnt[t].fstat = 1 /\ loc[t].rc # 0 /\ loc[t].errsrv = "ENOENT"

\* C4: a call whose parent handle no longer denotes a live object returns
\* ERR_FSAL_STALE, having invoked neither the access check nor the name lookup.
C4_StaleParentReturnsStale ==
    \A t \in Threads :
        (Returned(t) /\ FoundStale(t)) =>
            /\ ret[t] = "ERR_FSAL_STALE"
            /\ cnt[t].access = 0
            /\ cnt[t].lookup = 0

\* C5: a call holds exactly one gate token while it runs a storage call
\* (open-by-handle, metadata fetch, name lookup) up to the release that
\* follows it, and none anywhere else: not while classifying the kind or
\* checking access, and not once it has returned, whatever the exit path.
C5_TokenScopedPerStorageCall ==
    \A t \in Threads :
        /\ held[t] \in {0, 1}
        /\ held[t] = 1 <=> pc[t] \in {"handle2fd", "rel_handle2fd", "fstat", "rel_fstat",
                                      "name_by_handle", "rel_lookup_err", "rel_lookup_ok"}
        /\ cnt[t].take = cnt[t].open + cnt[t].fstat + cnt[t].lookup
                         + (IF pc[t] \in {"handle2fd", "fstat", "name_by_handle"} THEN 1 ELSE 0)

C5_Witness ==
    \E t \in Threads :
        /\ Returned(t) /\ cnt[t].lookup = 1 /\ loc[t].rc # 0
        /\ cnt[t].take = 3 /\ held[t] = 0 /\ tokens = GateCapacity

\* C7: a call opens its parent handle once, and the metadata fetch and the
\* name lookup both work on the object that one open bound: the directory
\* searched is the object that was classified and access-checked, whatever
\* the mutator renamed or removed in between.
C7_SameReferenceThroughout ==
    \A t \in Threads :
        /\ cnt[t].open <= 1
        /\ cnt[t].fstat >= 1 => (cnt[t].open = 1 /\ loc[t].statObj = arg[t].parent)
        /\ cnt[t].lookup >= 1 =>
              /\ cnt[t].open = 1 /\ cnt[t].fstat = 1
              /\ loc[t].lookupObj = loc[t].statObj
              /\ loc[t].lookupObj = arg[t].parent

\* a lookup in the subdirectory that ran after the subdirectory's name in
\* the root was given to another object between the fetch and the lookup
C7_Witness ==
    \E t \in Threads :
        /\ cnt[t].lookup = 1 /\ arg[t].parent = Sub
        /\ loc[t].rootAtStat = Sub /\ loc[t].rootAtLookup = RegFile
        /\ loc[t].lookupObj = Sub

\* a root request: neither handle nor name, output handle and context given
RootRequest(t) ==
    /\ arg[t].op = "lookup"
    /\ arg[t].parent = NoHandle /\ arg[t].name = NoName
    /\ arg[t].hasOut /\ arg[t].ctx # NoCtx

\* the call has so far used no gate token, storage primitive or access check
StoreUntouched(t) ==
    /\ cnt[t].take = 0 /\ held[t] = 0
    /\ cnt[t].open = 0 /\ cnt[t].fstat = 0 /\ cnt[t].lookup = 0 /\ cnt[t].close = 0
    /\ cnt[t].access = 0

\* C8: a root request succeeds for every context with the output handle set
\* to the export's root handle, without access check, gate token or storage
\* primitive.
C8_RootRequestSucceedsUntouched ==
    \A t \in Threads :
        RootRequest(t) =>
            /\ pc[t] \in {"root_getattrs", "done"}
            /\ pc[t] = "done" => ret[t] = "ERR_FSAL_NO_ERROR"
            /\ pc[t] = "root_getattrs" <=> (arg[t].attrs /\ cnt[t].getattrs = 0)
            /\ out[t].handle = Root
            /\ StoreUntouched(t)

C8_Witness ==
    \E t \in Threads :
        /\ RootRequest(t) /\ pc[t] = "done" /\ arg[t].ctx = "uid1"
        /\ ~xok[Root]
        /\ out[t].handle = Root /\ ret[t] = "ERR_FSAL_NO_ERROR"

\* exactly one of handle and name, or no output handle, or no context
FaultyArguments(t) ==
    /\ arg[t].op = "lookup"
    /\ \/ (arg[t].parent = NoHandle) # (arg[t].name = NoName)
       \/ ~arg[t].hasOut
       \/ arg[t].ctx = NoCtx

\* C9: a call with exactly one of handle and name, or without output handle
\* or context, returns ERR_FSAL_FAULT with no storage primitive, gate token
\* or access check, and without writing the output handle.
C9_FaultyArgumentsRejected ==
    \A t \in Threads :
        FaultyArguments(t) =>
            /\ pc[t] = "done"
            /\ ret[t] = "ERR_FSAL_FAULT"
            /\ StoreUntouched(t)
            /\ cnt[t].getattrs = 0
            /\ out[t].handle = Garbage

C9_Witness ==
    \E t \in Threads :
        /\ FaultyArguments(t) /\ ret[t] = "ERR_FSAL_FAULT"
        /\ arg[t].parent = NoHandle /\ arg[t].name # NoName
        /\ arg[t].hasOut /\ arg[t].ctx # NoCtx

\* the metadata fetch succeeded and the parent's kind is Junction
JunctionParent(t) ==
    /\ ByName(t)
    /\ cnt[t].fstat = 1
    /\ posix2fsal_type(loc[t].st_mode) = "FSAL_TYPE_JUNCTION"
    /\ pc[t] \notin {"rel_fstat", "classify"}

\* C10: once the parent is classified as a Junction the call returns
\* ERR_FSAL_XDEV, for every name and context, without access check or name
\* lookup, and with the parent reference closed.
C10_JunctionReturnsCrossDevice ==
    \A t \in Threads :
        JunctionParent(t) =>
            /\ pc[t] = "done"
            /\ ret[t] = "ERR_FSAL_XDEV"
            /\ cnt[t].access = 0
            /\ cnt[t].lookup = 0
            /\ loc[t].parentfd = NoFd

C10_Witness ==
    \E t \in Threads :
        /\ JunctionParent(t) /\ arg[t].parent = Junc
        /\ arg[t].ctx = "uid1" /\ arg[t].name = "b" /\ ret[t] = "ERR_FSAL_XDEV"

\* thread t is inside a gated storage call
InFlight(t) == pc[t] \in {"handle2fd", "fstat", "name_by_handle"}
\* thread t waits at the gate
AtGate(t) == pc[t] \in {"take_handle2fd", "take_fstat", "take_lookup"}

C6_GateInvariant ==
    /\ Cardinality({t \in Threads : InFlight(t)}) <= GateCapacity
    /\ \A t \in Threads : AtGate(t) => held[t] = 0

\* C6: with NThreads callers sharing a gate of GateCapacity tokens, at most
\* GateCapacity gated storage calls are in flight, no caller waits at the
\* gate holding a token, and under fair scheduling every call returns.
C6_GateBoundsAndEveryCallReturns ==
    /\ []C6_GateInvariant
    /\ \A t \in Threads : (pc[t] \notin {"idle", "done"}) ~> (pc[t] = "done")

\* contention: every token is taken and another caller waits at the gate
C6_Witness ==
    \E t, u \in Threads :
        /\ t # u /\ InFlight(t) /\ AtGate(u) /\ tokens = 0
        /\ cnt[u].take >= 1

\* the metadata fetch succeeded and the switch on the kind has run
Classified(t) ==
    /\ ByName(t)
    /\ cnt[t].fstat = 1
    /\ loc[t].st_mode # "unset"
    /\ pc[t] \notin {"rel_fstat", "classify"}

\* C11: of a classified parent only a Directory goes on to the access check
\* and the name lookup; a RegularFile, SymbolicLink or
\* ExtendedAttributeContainer returns ERR_FSAL_NOTDIR and any unrecognized
\* kind ERR_FSAL_SERVERFAULT, both without access check or lookup.
C11_OnlyDirectoryProceeds ==
    \A t \in Threads :
        Classified(t) =>
            LET kind == posix2fsal_type(loc[t].st_mode)
            IN /\ kind = "FSAL_TYPE_DIR" <=> (pc[t] = "testAccess" \/ cnt[t].access = 1)
               /\ cnt[t].lookup >= 1 => kind = "FSAL_TYPE_DIR"
               /\ kind \in {"FSAL_TYPE_FILE", "FSAL_TYPE_LNK", "FSAL_TYPE_XATTR"}
                     => (pc[t] = "done" /\ ret[t] = "ERR_FSAL_NOTDIR")
               /\ kind \notin {"FSAL_TYPE_DIR", "FSAL_TYPE_FILE", "FSAL_TYPE_LNK",
                               "FSAL_TYPE_XATTR", "FSAL_TYPE_JUNCTION"}
                     => (pc[t] = "done" /\ ret[t] = "ERR_FSAL_SERVERFAULT")

C11_Witness ==
    \E t \in Threads :
        /\ Classified(t) /\ arg[t].parent = Sock /\ ret[t] = "ERR_FSAL_SERVERFAULT"
        /\ cnt[t].access = 0

\* the name lookup ran in a live directory and found no entry
NameAbsent(t) ==
    /\ ByName(t)
    /\ cnt[t].lookup = 1
    /\ loc[t].lookupLive /\ loc[t].lookupObj \in Dirs
    /\ loc[t].rc # 0

\* C12: a lookup, in a live directory the context may traverse, of a name
\* with no entry returns ERR_FSAL_NOENT, never ERR_FSAL_STALE.
C12_AbsentNameIsNotFound ==
    \A t \in Threads :
        (NameAbsent(t) /\ pc[t] = "done") =>
            /\ ret[t] = "ERR_FSAL_NOENT"
            /\ cnt[t].access = 1 /\ ~FSAL_IS_ERROR(loc[t].status)

C12_Witness ==
    \E t \in Threads :
        /\ NameAbsent(t) /\ pc[t] = "done" /\ arg[t].parent = Sub /\ arg[t].name = "b"
        /\ arg[t].ctx = "uid1" /\ live[Sub]


\* the attribute collaborator was called and reported an error
GetattrsFailed(t) == cnt[t].getattrs = 1 /\ FSAL_IS_ERROR(loc[t].status)

\* C13: a failure of the attribute collaborator is never the operation's
\* error, in the root case and the by-name case of VFSFSAL_lookup and in
\* VFSFSAL_lookupPath alike: the call returns success with the handle it
\* resolved, and the attribute mask holds exactly the RDATTR_ERR bit
C13_AttributeFailureDegrades ==
    \A t \in Threads :
        /\ GetattrsFailed(t) =>
               /\ pc[t] = "done"
               /\ ret[t] = "ERR_FSAL_NO_ERROR"
               /\ out[t].mask = RdattrErrMask
               /\ out[t].handle \in Objects
               /\ arg[t].op \in {"lookup", "lookupPath"}
        /\ cnt[t].getattrs <= 1

\* a path of two components resolved, and its attributes were unavailable
C13_Witness ==
    \E t \in Threads :
        /\ GetattrsFailed(t)
        /\ arg[t].op = "lookupPath"
        /\ arg[t].path.comps = <<"a", "a">>
        /\ out[t].handle = RegFile

\* the same in the root case of VFSFSAL_lookup
C13_WitnessRoot == \E t \in Threads : GetattrsFailed(t) /\ RootRequest(t)

\* the same in the by-name case of VFSFSAL_lookup
C13_WitnessByName ==
    \E t \in Threads : GetattrsFailed(t) /\ ByName(t) /\ out[t].handle = Sub

\* Resolve applied to the components from left to right, starting from the
\* root handle, each result the parent of the next; an error ends the fold
RECURSIVE FoldOfResolve(_, _, _)
FoldOfResolve(acc, comps, ctx) ==
    IF comps = << >> \/ FSAL_IS_ERROR(acc.status) THEN acc
    ELSE FoldOfResolve(ResolveAlone(acc.handle, Head(comps), ctx), Tail(comps), ctx)

\* Resolve(no parent, no name): the root handle
ResolveRoot == [status |-> "ERR_FSAL_NO_ERROR", handle |-> RootHandleCopy(Garbage)]

C14_WitnessFailure ==
    \E t \in Threads :
        /\ arg[t].op = "lookupPath" /\ pc[t] = "done"
        /\ arg[t].path.comps = <<"b", "a">>
        /\ ret[t] = "ERR_FSAL_NOTDIR"
        /\ out[t].handle = Garbage

\* a VFSFSAL_lookupPath call with a missing path, context or output handle
PathArgMissing(t) ==
    /\ arg[t].op = "lookupPath"
    /\ (arg[t].path = NoPath \/ arg[t].ctx = NoCtx \/ ~arg[t].hasOut)

\* a VFSFSAL_lookupPath call with all arguments and a path not starting at '/'
PathNotAbsolute(t) ==
    /\ arg[t].op = "lookupPath"
    /\ ~PathArgMissing(t)
    /\ ~arg[t].path.abs

\* C15: VFSFSAL_lookupPath returns ERR_FSAL_FAULT when the path, the
\* context or the output handle is missing and ERR_FSAL_INVAL when the path
\* is not absolute; in both cases neither fsal_internal_Path2Handle nor the
\* attribute collaborator is called and the output handle is unchanged
C15_PathArgumentsRejected ==
    \A t \in Threads :
        /\ PathArgMissing(t) => (pc[t] = "done" /\ ret[t] = "ERR_FSAL_FAULT")
        /\ PathNotAbsolute(t) => (pc[t] = "done" /\ ret[t] = "ERR_FSAL_INVAL")
        /\ (PathArgMissing(t) \/ PathNotAbsolute(t)) =>
               /\ cnt[t].path2handle = 0
               /\ cnt[t].getattrs = 0
               /\ out[t].handle = Garbage

\* the relative path "a" was rejected
C15_Witness ==
    \E t \in Threads :
        /\ PathNotAbsolute(t)
        /\ arg[t].path.comps = <<"a">>
        /\ ret[t] = "ERR_FSAL_INVAL"

\* a call without a path was rejected
C15_WitnessMissing ==
    \E t \in Threads :
        /\ PathArgMissing(t) /\ arg[t].path = NoPath
        /\ arg[t].hasOut /\ arg[t].ctx # NoCtx
        /\ ret[t] = "ERR_FSAL_FAULT"

C16_WitnessMissing ==
    \E t \in Threads :
        /\ arg[t].op = "lookupJunction"
        /\ arg[t].parent = NoHandle
        /\ ~arg[t].hasOut /\ arg[t].ctx = NoCtx
        /\ ret[t] = "ERR_FSAL_NO_ERROR"

\* the metadata fetch of the call reported an input/output fault
FstatFaulted(t) == cnt[t].fstat = 1 /\ cnt[t].lookup = 0 /\ loc[t].rc # 0

\* C17: concurrent invocations are independent: on a namespace nobody
\* changes, every by-name call whose storage calls met no fault returns the
\* status and the handle it returns when run alone, whatever the other
\* callers do meanwhile (the gate being the only state they share)
C17_ConcurrentCallsIndependent ==
    \A t \in Threads :
        (Returned(t) /\ ByName(t) /\ ~FstatFaulted(t)) =>
            LET alone == ResolveAlone(arg[t].parent, arg[t].name, arg[t].ctx)
            IN /\ ret[t] = alone.status
               /\ out[t].handle = alone.handle

\* the same, as long as the calls of the other callers (and the earlier
\* ones of this caller) have not filled the process's descriptor table
C17_IndependentWhileTableNotFull ==
    \A t \in Threads :
        (Returned(t) /\ ByName(t) /\ ~FstatFaulted(t) /\ loc[t].parentfd # NoFd) =>
            LET alone == ResolveAlone(arg[t].parent, arg[t].name, arg[t].ctx)
            IN /\ ret[t] = alone.status
               /\ out[t].handle = alone.handle

\* two calls were given the same parent handle, name and context
SameRequest(t, u) ==
    /\ arg[t].parent = arg[u].parent
    /\ arg[t].name = arg[u].name
    /\ arg[t].ctx = arg[u].ctx

\* C18: Resolve is idempotent: on a namespace nobody changes, two by-name
\* calls with the same arguments whose storage calls met no fault return
\* the same status and the same handle, and once no call is in progress
\* the gate has all its tokens back
C18_SameRequestSameResult ==
    /\ \A t, u \in Threads :
          (/\ Returned(t) /\ ByName(t) /\ ~FstatFaulted(t)
           /\ Returned(u) /\ ByName(u) /\ ~FstatFaulted(u)
           /\ SameRequest(t, u)) =>
              /\ ret[t] = ret[u]
              /\ out[t].handle = out[u].handle
    /\ (\A t \in Threads : pc[t] \in {"idle", "done"}) => tokens = GateCapacity

\* each collaborator is called at most once and only after the one before
\* it in open, fstat, access check, name lookup, attributes succeeded
StepsInOrder(t) ==
    /\ cnt[t].open <= 1 /\ cnt[t].fstat <= 1 /\ cnt[t].access <= 1
    /\ cnt[t].lookup <= 1 /\ cnt[t].getattrs <= 1
    /\ cnt[t].fstat = 1 => (cnt[t].open = 1 /\ loc[t].statObj = arg[t].parent)
    /\ cnt[t].access = 1 => (cnt[t].fstat = 1 /\ loc[t].st_mode = "S_IFDIR")
    /\ cnt[t].lookup = 1 => (cnt[t].access = 1 /\ ~AccessDenied(t))
    /\ cnt[t].getattrs = 1 => (cnt[t].lookup = 1 /\ loc[t].rc = 0)

\* the order part of C19 alone
C19_StepsInOrder == \A t \in Threads : ByName(t) => StepsInOrder(t)

\* C19: a by-name call runs its steps in the fixed order, each collaborator
\* at most once, and returns success exactly when every step through the
\* name lookup succeeded, an error otherwise
C19_SuccessIffAllStepsSucceeded ==
    \A t \in Threads :
        (Returned(t) /\ ByName(t)) =>
            /\ StepsInOrder(t)
            /\ ret[t] = "ERR_FSAL_NO_ERROR" <=> (cnt[t].lookup = 1 /\ loc[t].rc = 0)

\* the call returned an error, or met a failed metadata fetch, without
\* having reached the name lookup
FailedBeforeLookup(t) ==
    /\ Returned(t)
    /\ cnt[t].lookup = 0
    /\ FSAL_IS_ERROR(ret[t]) \/ FstatFaulted(t)

\* the output handle and the attribute list as the caller passed them in
OutAsPassed(t) == [NoOut EXCEPT !.mask = IF arg[t].attrs THEN AskedMask ELSE NoAttrs]

\* C20: a call that fails before the name lookup (faulty arguments, open
\* failure, metadata failure, junction, non-directory, unknown kind, access
\* denied) leaves the caller's output handle and attribute list exactly as
\* they were passed in, and VFSFSAL_getattrs is not called
C20_EarlyFailureLeavesOutputs ==
    \A t \in Threads :
        FailedBeforeLookup(t) =>
            /\ out[t] = OutAsPassed(t)
            /\ cnt[t].getattrs = 0

\* a call with attributes asked for was denied traversal of its parent
C20_Witness ==
    \E t \in Threads :
        /\ FailedBeforeLookup(t)
        /\ AccessDenied(t)
        /\ arg[t].attrs
        /\ ret[t] = "ERR_FSAL_ACCESS"
        /\ out[t].mask = AskedMask

\* a call with attributes asked for failed at the open of a stale parent
C20_WitnessOpenFailure ==
    \E t \in Threads :
        /\ FailedBeforeLookup(t)
        /\ cnt[t].open = 1 /\ cnt[t].fstat = 0
        /\ arg[t].attrs
        /\ ret[t] = "ERR_FSAL_STALE"
====
